---- MODULE Spec2Model ----
(***************************************************************************)
(* A model of the CRM backend: the calendar event store and its REST       *)
(* handlers (calendar_module), the reminder lookahead, and the password    *)
(* reset flow (authentication).                                            *)
(*                                                                         *)
(* Instants are integers counted in ticks (1/TicksPerSecond of a second)   *)
(* since 2024-01-01T00:00:00Z; civil dates are triples <<y, m, d>>.         *)
(***************************************************************************)
EXTENDS Integers, Sequences, FiniteSets, TLC

VARIABLES
    events,      \* CalendarEvent table: event id -> row (with its attendee join rows)
    nextId,      \* next primary key the CalendarEvent table hands out
    response,    \* the last HTTP response of the calendar API
    now,         \* timezone.now()
    recurrences, \* RecurringEvent table: a set of rows, unique in base_event
    reminders,   \* EventReminder table: a set of rows, unique in (event, user, reminder_datetime)
    passes,      \* reminder dispatch passes: pass -> the due reminders it still has to mark
    tokens,      \* PasswordResetToken table: a set of rows, unique in token
    nextToken,   \* the next uuid4 ForgotPasswordAPIView draws
    passwords,   \* auth_user.password: user id -> password
    reqs         \* reset-password requests in flight: request -> its position and locals

vars ==
    <<events, nextId, response, now, recurrences, reminders, passes,
      tokens, nextToken, passwords, reqs>>

\* what the calendar event handlers leave alone
reminderVars == <<recurrences, reminders, passes>>
authVars == <<tokens, nextToken, passwords, reqs>>

(***************************************************************************)
(* Bounds of the model                                                     *)
(***************************************************************************)
NumUsers == 2
MaxEvents == 1
TicksPerSecond == 2
MaxReminders == 2
NumPasses == 2
MaxTokens == 1
NumRequests == 2

Users == 1..NumUsers
EventIds == 1..MaxEvents

(***************************************************************************)
(* Calendar arithmetic (datetime.date / datetime.datetime)                 *)
(***************************************************************************)
SecondsPerDay == 24 * 60 * 60
TicksPerDay == SecondsPerDay * TicksPerSecond
Years == 2023..2026

IsLeap(y) == (y % 4 = 0) /\ ((y % 100 # 0) \/ (y % 400 = 0))

DaysInMonth(y, m) ==
    IF m \in {4, 6, 9, 11} THEN 30
    ELSE IF m = 2 THEN (IF IsLeap(y) THEN 29 ELSE 28)
    ELSE 31

\* date(y, m, d) raises ValueError unless this holds
ValidDate(y, m, d) ==
    /\ y \in 1..9999
    /\ m \in 1..12
    /\ d \in 1..DaysInMonth(y, m)

DaysBeforeYear(y) ==
    (y - 1) * 365 + ((y - 1) \div 4) - ((y - 1) \div 100) + ((y - 1) \div 400)

RECURSIVE DaysBeforeMonth(_, _)
DaysBeforeMonth(y, m) ==
    IF m = 1 THEN 0 ELSE DaysBeforeMonth(y, m - 1) + DaysInMonth(y, m - 1)

\* date.toordinal()
ToOrdinal(dt) == DaysBeforeYear(dt[1]) + DaysBeforeMonth(dt[1], dt[2]) + dt[3]

\* date.fromordinal(n), for the years of the model
FromOrdinal(n) ==
    LET y == CHOOSE yy \in Years : DaysBeforeYear(yy) < n /\ n <= DaysBeforeYear(yy + 1)
        m == CHOOSE mm \in 1..12 :
                 /\ DaysBeforeMonth(y, mm) < n - DaysBeforeYear(y)
                 /\ n - DaysBeforeYear(y) <= DaysBeforeMonth(y, mm) + DaysInMonth(y, mm)
    IN  <<y, m, n - DaysBeforeYear(y) - DaysBeforeMonth(y, m)>>

\* date.weekday(): Monday is 0
Weekday(dt) == (ToOrdinal(dt) + 6) % 7

\* date.isocalendar()[1]: the week of the year that holds the date's Thursday
IsoWeek(dt) ==
    LET thursday == FromOrdinal(ToOrdinal(dt) - Weekday(dt) + 3)
    IN  ((ToOrdinal(thursday) - ToOrdinal(<<thursday[1], 1, 1>>)) \div 7) + 1

EpochOrdinal == ToOrdinal(<<2024, 1, 1>>)

\* the instant of 00:00:00 UTC on a date, plus an offset in ticks
Midnight(dt) == (ToOrdinal(dt) - EpochOrdinal) * TicksPerDay

\* the UTC date an instant falls on
DateOf(t) == FromOrdinal(EpochOrdinal + (t \div TicksPerDay))

(***************************************************************************)
(* CalendarEvent rows                                                      *)
(***************************************************************************)
EventTypes == {"event", "task"}

\* int(x): Python's int() of a quotient truncates toward zero
TruncDiv(a, b) == IF a >= 0 THEN a \div b ELSE -((-a) \div b)

\* CalendarEvent.save(): duration_minutes is recomputed before every write
DurationMinutes(start, end) == TruncDiv(end - start, 60 * TicksPerSecond)

Save(row) ==
    [row EXCEPT !.duration_minutes = DurationMinutes(row.start_datetime, row.end_datetime)]

\* the attendee join table of one event: user id -> number of join rows
NoAttendees == [u \in Users |-> 0]

\* a faulty add() without the look-up of the rows that exist: one more join
\* row on every call
AttendeesAddBlind(att, ids) == [u \in Users |-> IF u \in ids THEN att[u] + 1 ELSE att[u]]

\* ManyRelatedManager.add(): inserts a join row only for ids that have none
AttendeesAdd(att, ids) == [u \in Users |-> IF u \in ids /\ att[u] = 0 THEN 1 ELSE att[u]]

\* ManyRelatedManager.remove(): deletes the join rows of the ids
AttendeesRemove(att, ids) == [u \in Users |-> IF u \in ids THEN 0 ELSE att[u]]

\* ManyRelatedManager.set(): removes what is not wanted, adds what is missing
AttendeesSet(att, ids) ==
    AttendeesAdd(AttendeesRemove(att, {u \in Users : att[u] > 0 /\ u \notin ids}), ids)

AttendeeIds(row) == {u \in Users : row.attendees[u] > 0}

Has(data, f) == f \in DOMAIN data

\* a response: the handler, the authenticated caller, the HTTP status, the
\* detail or error message, and the ids of the events or reminders returned
Resp(op, user, status, body) ==
    [op |-> op, user |-> user, status |-> status, detail |-> "", body |-> body]

Err(op, user, status, detail) ==
    [op |-> op, user |-> user, status |-> status, detail |-> detail, body |-> <<>>]

(***************************************************************************)
(* Request inputs                                                          *)
(***************************************************************************)
\* an optional field of a request body or query string
Opt(name, vals) == {<<>>} \cup {name :> v : v \in vals}

\* instants a client sends: 2024-01-01T00:00:00Z, 90 seconds later, 2025-01-01T00:00:00Z
T0 == Midnight(<<2024, 1, 1>>)
T1 == T0 + 90 * TicksPerSecond
T2 == Midnight(<<2025, 1, 1>>)
WriteTimes == {T0, T1}
EventTimes == {T0, T1, T2}

\* user ids a client may name: the existing ones and one that is not in the table
NoSuchUser == NumUsers + 1
UserIds == Users \cup {NoSuchUser}

\* the user_id of an add_attendee / remove_attendee body: a JSON number, a
\* string of digits, any other string, or no user_id at all
UserIdInputs ==
    [kind : {"int"}, val : UserIds]
        \cup {[kind |-> "digits", val |-> 1], [kind |-> "text", val |-> 0],
              [kind |-> "none", val |-> 0]}

\* JSON bodies of POST / PUT / PATCH /events
EventBodies ==
    { s @@ e @@ a @@ x :
        s \in Opt("start_datetime", WriteTimes),
        e \in Opt("end_datetime", WriteTimes),
        a \in Opt("attendees", SUBSET Users \cup {{NoSuchUser}}),
        x \in Opt("is_completed", BOOLEAN) \cup Opt("duration_minutes", {7}) }

(***************************************************************************)
(* CalendarEventViewSet.get_queryset                                       *)
(***************************************************************************)
NoParams == <<>>

\* django.utils.dateparse.parse_date on a "YYYY-MM-DD" shaped string (wellformed)
\* or on any other string: a date, None, or ValueError for an impossible date
ParseDate(d) ==
    IF ~d.wellformed THEN [kind |-> "none", ymd |-> d.ymd]
    ELSE IF ValidDate(d.ymd[1], d.ymd[2], d.ymd[3]) THEN [kind |-> "date", ymd |-> d.ymd]
    ELSE [kind |-> "error", ymd |-> d.ymd]

\* the old-style calendar filter is entered when both date and view are given
HasDateFilter(params) == Has(params, "date") /\ Has(params, "view")

\* parse_date raises inside get_queryset
QuerysetRaises(params) ==
    HasDateFilter(params) /\ ParseDate(params.date).kind = "error"

DateFilter(row, params) ==
    IF ~HasDateFilter(params) \/ ParseDate(params.date).kind # "date" THEN TRUE
    ELSE LET date == ParseDate(params.date).ymd
             start == DateOf(row.start_datetime)
         IN  CASE params.view = "day" -> start = date
               [] params.view = "week" -> IsoWeek(start) = IsoWeek(date)
               [] params.view = "month" -> start[1] = date[1] /\ start[2] = date[2]
               [] OTHER -> TRUE

Filters(row, params) ==
    /\ Has(params, "event_type") => row.event_type = params.event_type
    /\ Has(params, "is_completed") => row.is_completed = (params.is_completed = "true")
    /\ DateFilter(row, params)

RECURSIVE SumOver(_, _)
SumOver(f, S) ==
    IF S = {} THEN 0
    ELSE LET x == CHOOSE y \in S : TRUE IN f[x] + SumOver(f, S \ {x})

\* a faulty join without its WHERE clause: the rows of every event, whoever asks
JoinRowsOfAnyone(row, user) ==
    IF SumOver(row.attendees, Users) = 0 THEN 1 ELSE SumOver(row.attendees, Users)

\* rows of CalendarEvent LEFT JOIN attendees that satisfy
\* Q(created_by=user) | Q(attendees=user), counted per event
JoinRows(row, user) ==
    IF row.created_by = user
    THEN (IF SumOver(row.attendees, Users) = 0 THEN 1 ELSE SumOver(row.attendees, Users))
    ELSE row.attendees[user]

\* QuerySet.distinct()
Distinct(n) == IF n > 0 THEN 1 ELSE 0

\* the number of rows the queryset holds for one event
RowCount(user, params, e) ==
    IF Filters(events[e], params) THEN Distinct(JoinRows(events[e], user)) ELSE 0

\* the queryset as a bag: event id -> number of result rows
GetQueryset(user, params) == [e \in DOMAIN events |-> RowCount(user, params, e)]

\* GenericAPIView.get_object(): "found", "missing" (404) or "multiple" (500)
GetObject(user, params, pk) ==
    IF pk \notin DOMAIN events THEN "missing"
    ELSE LET n == RowCount(user, params, pk)
         IN  IF n = 0 THEN "missing" ELSE IF n = 1 THEN "found" ELSE "multiple"

(***************************************************************************)
(* Serializers                                                             *)
(***************************************************************************)
\* field-level validation shared by both serializers: attendees are primary
\* keys of existing users, event_type is one of the choices
FieldsValid(data) ==
    /\ Has(data, "attendees") => data.attendees \subseteq Users
    /\ Has(data, "event_type") => data.event_type \in EventTypes

\* CalendarEventCreateSerializer: start and end are required; no validate()
CreateValid(data) ==
    /\ Has(data, "start_datetime")
    /\ Has(data, "end_datetime")
    /\ FieldsValid(data)

\* CalendarEventSerializer.validate: compares start and end only when the
\* request carries both
Validate(data) ==
    ~(Has(data, "start_datetime") /\ Has(data, "end_datetime")
        /\ data.end_datetime <= data.start_datetime)

\* CalendarEventSerializer on PUT (partial = FALSE) and PATCH (partial = TRUE)
UpdateValid(data, partial) ==
    /\ partial \/ (Has(data, "start_datetime") /\ Has(data, "end_datetime"))
    /\ FieldsValid(data)
    /\ Validate(data)

\* a faulty create that lets the body name the creator
NewRowFromBody(user, data) ==
    LET row == [start_datetime |-> data.start_datetime,
                end_datetime |-> data.end_datetime,
                duration_minutes |-> 0,
                created_by |-> IF Has(data, "created_by") THEN data.created_by ELSE user,
                attendees |-> NoAttendees,
                event_type |-> IF Has(data, "event_type") THEN data.event_type ELSE "event",
                is_completed |-> FALSE]
        saved == Save(row)
    IN  IF Has(data, "attendees")
        THEN [saved EXCEPT !.attendees = AttendeesSet(saved.attendees, data.attendees)]
        ELSE saved

\* ModelSerializer.create with created_by passed by perform_create; created_by
\* is not a field of CalendarEventCreateSerializer, so the body's is dropped
NewRow(user, data) ==
    LET row == [start_datetime |-> data.start_datetime,
                end_datetime |-> data.end_datetime,
                duration_minutes |-> 0,
                created_by |-> user,
                attendees |-> NoAttendees,
                event_type |-> IF Has(data, "event_type") THEN data.event_type ELSE "event",
                is_completed |-> FALSE]
        saved == Save(row)
    IN  IF Has(data, "attendees")
        THEN [saved EXCEPT !.attendees = AttendeesSet(saved.attendees, data.attendees)]
        ELSE saved

\* ModelSerializer.update: writable fields of the request are assigned
\* (created_by and duration_minutes are read-only, so the body's are dropped),
\* the row is saved, then the attendee relation is set
UpdatedRow(row, data) ==
    LET assigned ==
            [row EXCEPT
                !.start_datetime = IF Has(data, "start_datetime") THEN data.start_datetime ELSE @,
                !.end_datetime = IF Has(data, "end_datetime") THEN data.end_datetime ELSE @,
                !.event_type = IF Has(data, "event_type") THEN data.event_type ELSE @,
                !.is_completed = IF Has(data, "is_completed") THEN data.is_completed ELSE @]
        saved == Save(assigned)
    IN  IF Has(data, "attendees")
        THEN [saved EXCEPT !.attendees = AttendeesSet(saved.attendees, data.attendees)]
        ELSE saved

(***************************************************************************)
(* Event handlers that write                                               *)
(*                                                                         *)
(* Each handler is an operator giving the table and the response it        *)
(* leaves, and an action that installs them.                               *)
(***************************************************************************)
Outcome(table, resp) == [events |-> table, response |-> resp]

\* POST /events: CalendarEventCreateSerializer, then perform_create
CreateOutcome(user, data) ==
    IF ~CreateValid(data)
    THEN Outcome(events, Err("create", user, 400, "invalid"))
    ELSE Outcome(events @@ (nextId :> NewRow(user, data)),
                 Resp("create", user, 201, <<nextId>>))

Create(user, data) ==
    /\ CreateValid(data) => nextId <= MaxEvents
    /\ LET o == CreateOutcome(user, data)
       IN  events' = o.events /\ response' = o.response
    /\ nextId' = IF CreateValid(data) THEN nextId + 1 ELSE nextId
    /\ UNCHANGED <<now, reminderVars, authVars>>

\* PUT and PATCH /events/{pk}: get_object, CalendarEventSerializer, update
UpdateOutcome(op, partial, user, pk, data) ==
    IF GetObject(user, NoParams, pk) # "found"
    THEN Outcome(events, Err(op, user, 404, "Not found"))
    ELSE IF ~UpdateValid(data, partial)
    THEN Outcome(events, Err(op, user, 400, "invalid"))
    ELSE Outcome([events EXCEPT ![pk] = UpdatedRow(events[pk], data)],
                 Resp(op, user, 200, <<pk>>))

Put(user, pk, data) ==
    /\ LET o == UpdateOutcome("put", FALSE, user, pk, data)
       IN  events' = o.events /\ response' = o.response
    /\ UNCHANGED <<now, nextId, reminderVars, authVars>>

Patch(user, pk, data) ==
    /\ LET o == UpdateOutcome("patch", TRUE, user, pk, data)
       IN  events' = o.events /\ response' = o.response
    /\ UNCHANGED <<now, nextId, reminderVars, authVars>>

\* POST /events/{pk}/mark_completed
MarkCompletedOutcome(user, pk) ==
    IF GetObject(user, NoParams, pk) # "found"
    THEN Outcome(events, Err("mark_completed", user, 404, "Not found"))
    ELSE Outcome([events EXCEPT ![pk] = Save([@ EXCEPT !.is_completed = TRUE])],
                 Resp("mark_completed", user, 200, <<pk>>))

MarkCompleted(user, pk) ==
    /\ LET o == MarkCompletedOutcome(user, pk)
       IN  events' = o.events /\ response' = o.response
    /\ UNCHANGED <<now, nextId, reminderVars, authVars>>

\* a faulty foreign key whose rows outlive the row they refer to
CascadeKeep(rows, field, ids) == rows

\* on_delete=CASCADE: the rows whose foreign key still finds its row remain
Cascade(rows, field, ids) == {r \in rows : r[field] \in ids}

\* DELETE /events/{pk}; the delete cascades to the recurrence record and the
\* reminders of the event
DeleteOutcome(user, pk) ==
    IF GetObject(user, NoParams, pk) # "found"
    THEN Outcome(events, Err("delete", user, 404, "Not found"))
    ELSE Outcome([e \in DOMAIN events \ {pk} |-> events[e]],
                 Resp("delete", user, 204, <<>>))

Delete(user, pk) ==
    /\ LET o == DeleteOutcome(user, pk)
       IN  events' = o.events /\ response' = o.response
    /\ recurrences' = Cascade(recurrences, "base_event", DOMAIN events')
    /\ reminders' = Cascade(reminders, "event", DOMAIN events')
    /\ UNCHANGED <<now, nextId, passes, authVars>>

\* User.objects.get(id=user_id): the user, User.DoesNotExist, or the ValueError
\* the integer primary key field raises for a value int() does not take
GetUser(uid) ==
    CASE uid.kind \in {"int", "digits"} ->
            IF uid.val \in Users THEN [outcome |-> "found", id |-> uid.val]
            ELSE [outcome |-> "DoesNotExist", id |-> 0]
      [] uid.kind = "none" -> [outcome |-> "DoesNotExist", id |-> 0]
      [] OTHER -> [outcome |-> "ValueError", id |-> 0]

\* POST /events/{pk}/add_attendee
AddAttendeeOutcome(user, pk, uid) ==
    IF GetObject(user, NoParams, pk) # "found"
    THEN Outcome(events, Err("add_attendee", user, 404, "Not found"))
    ELSE IF GetUser(uid).outcome = "DoesNotExist"
    THEN Outcome(events, Err("add_attendee", user, 404, "User not found"))
    ELSE IF GetUser(uid).outcome = "ValueError"
    THEN Outcome(events, Err("add_attendee", user, 500, "ValueError"))
    ELSE Outcome([events EXCEPT ![pk].attendees = AttendeesAdd(@, {GetUser(uid).id})],
                 Resp("add_attendee", user, 200, <<pk>>))

AddAttendee(user, pk, uid) ==
    /\ LET o == AddAttendeeOutcome(user, pk, uid)
       IN  events' = o.events /\ response' = o.response
    /\ UNCHANGED <<now, nextId, reminderVars, authVars>>

\* POST /events/{pk}/remove_attendee
RemoveAttendeeOutcome(user, pk, uid) ==
    IF GetObject(user, NoParams, pk) # "found"
    THEN Outcome(events, Err("remove_attendee", user, 404, "Not found"))
    ELSE IF GetUser(uid).outcome = "DoesNotExist"
    THEN Outcome(events, Err("remove_attendee", user, 404, "User not found"))
    ELSE IF GetUser(uid).outcome = "ValueError"
    THEN Outcome(events, Err("remove_attendee", user, 500, "ValueError"))
    ELSE Outcome([events EXCEPT ![pk].attendees = AttendeesRemove(@, {GetUser(uid).id})],
                 Resp("remove_attendee", user, 200, <<pk>>))

RemoveAttendee(user, pk, uid) ==
    /\ LET o == RemoveAttendeeOutcome(user, pk, uid)
       IN  events' = o.events /\ response' = o.response
    /\ UNCHANGED <<now, nextId, reminderVars, authVars>>

(***************************************************************************)
(* Event handlers that read                                                *)
(***************************************************************************)
\* the rows of a queryset in Meta.ordering: ascending start_datetime, rows with
\* equal start_datetime in any order
Ordered(bag) ==
    LET ids == DOMAIN bag
        total == SumOver(bag, ids)
    IN  { s \in [1..total -> ids] :
            /\ \A e \in ids : Cardinality({i \in 1..total : s[i] = e}) = bag[e]
            /\ \A i \in 1..total, j \in 1..total :
                 i < j => events[s[i]].start_datetime <= events[s[j]].start_datetime }

\* queryset.filter(start_datetime__gte=start_dt, start_datetime__lte=end_dt)
InWindow(bag, start_dt, end_dt) ==
    [e \in DOMAIN bag |->
        IF start_dt <= events[e].start_datetime /\ events[e].start_datetime <= end_dt
        THEN bag[e] ELSE 0]

\* GET /events
ListOutcomes(user, params) ==
    IF QuerysetRaises(params)
    THEN {Err("list", user, 500, "ValueError")}
    ELSE {Resp("list", user, 200, body) : body \in Ordered(GetQueryset(user, params))}

List(user, params) ==
    /\ response' \in ListOutcomes(user, params)
    /\ UNCHANGED <<events, nextId, now, reminderVars, authVars>>

\* GET /events/{pk}
RetrieveOutcome(user, params, pk) ==
    IF QuerysetRaises(params) THEN Err("retrieve", user, 500, "ValueError")
    ELSE CASE GetObject(user, params, pk) = "missing" -> Err("retrieve", user, 404, "Not found")
           [] GetObject(user, params, pk) = "multiple" ->
                Err("retrieve", user, 500, "MultipleObjectsReturned")
           [] OTHER -> Resp("retrieve", user, 200, <<pk>>)

Retrieve(user, params, pk) ==
    /\ response' = RetrieveOutcome(user, params, pk)
    /\ UNCHANGED <<events, nextId, now, reminderVars, authVars>>

\* GET /events/week_view?date=YYYY-MM-DD: the date defaults to today; the
\* window runs from Monday 00:00:00 to Sunday 23:59:59.999999 in UTC
WeekViewOutcomes(user, params) ==
    LET parsed == IF Has(params, "date") THEN ParseDate(params.date)
                  ELSE [kind |-> "date", ymd |-> DateOf(now)]
    IN  IF parsed.kind = "error" THEN {Err("week_view", user, 500, "ValueError")}
        ELSE IF parsed.kind = "none" THEN {Err("week_view", user, 400, "Invalid date format")}
        ELSE LET start_of_week == ToOrdinal(parsed.ymd) - Weekday(parsed.ymd)
                 end_of_week == start_of_week + 6
                 start_dt == (start_of_week - EpochOrdinal) * TicksPerDay
                 end_dt == (end_of_week - EpochOrdinal) * TicksPerDay + (TicksPerDay - 1)
             IN  {Resp("week_view", user, 200, body) :
                    body \in Ordered(InWindow(GetQueryset(user, params), start_dt, end_dt))}

WeekView(user, params) ==
    /\ response' \in WeekViewOutcomes(user, params)
    /\ UNCHANGED <<events, nextId, now, reminderVars, authVars>>

\* int(request.query_params.get(name, default))
IntParam(params, name, default) ==
    IF ~Has(params, name) THEN [ok |-> TRUE, val |-> default]
    ELSE IF params[name].kind = "int" THEN [ok |-> TRUE, val |-> params[name].val]
    ELSE [ok |-> FALSE, val |-> 0]

\* GET /events/month_view?year=&month=: the window runs from the first of the
\* month 00:00:00 to one second before the first of the next month
MonthViewOutcomes(user, params) ==
    LET year == IntParam(params, "year", DateOf(now)[1])
        month == IntParam(params, "month", DateOf(now)[2])
    IN  IF ~year.ok \/ ~month.ok
        THEN {Err("month_view", user, 400, "Invalid year or month")}
        ELSE IF ~ValidDate(year.val, month.val, 1)
                 \/ (month.val = 12 /\ ~ValidDate(year.val + 1, 1, 1))
        THEN {Err("month_view", user, 500, "ValueError")}
        ELSE IF QuerysetRaises(params)
        THEN {Err("month_view", user, 500, "ValueError")}
        ELSE LET first_day == Midnight(<<year.val, month.val, 1>>)
                 last_day == IF month.val = 12
                             THEN Midnight(<<year.val + 1, 1, 1>>) - TicksPerSecond
                             ELSE Midnight(<<year.val, month.val + 1, 1>>) - TicksPerSecond
             IN  {Resp("month_view", user, 200, body) :
                    body \in Ordered(InWindow(GetQueryset(user, params), first_day, last_day))}

MonthView(user, params) ==
    /\ response' \in MonthViewOutcomes(user, params)
    /\ UNCHANGED <<events, nextId, now, reminderVars, authVars>>

(***************************************************************************)
(* Recurring events                                                        *)
(***************************************************************************)
Patterns == {"daily", "weekly"}

\* POST /recurring-events: base_event is read-only in RecurringEventSerializer,
\* so the row is inserted without it and the NOT NULL column refuses it
CreateRecurrence(user, pattern) ==
    /\ response' = Err("create_recurrence", user, 500, "IntegrityError")
    /\ UNCHANGED <<events, nextId, now, reminderVars, authVars>>

\* RecurringEvent(base_event=e, pattern=pattern).save(), as the admin or a
\* shell does it: the OneToOneField is unique and must find its event
SaveRecurrence(e, pattern) ==
    /\ IF e \notin DOMAIN events \/ \E r \in recurrences : r.base_event = e
       THEN /\ response' = Err("save_recurrence", 0, 500, "IntegrityError")
            /\ UNCHANGED recurrences
       ELSE /\ recurrences' = recurrences \cup {[base_event |-> e, pattern |-> pattern]}
            /\ response' = Resp("save_recurrence", 0, 200, <<e>>)
    /\ UNCHANGED <<events, nextId, now, reminders, passes, authVars>>

(***************************************************************************)
(* Event reminders                                                         *)
(***************************************************************************)
HorizonHours == 24
Horizon == HorizonHours * 3600 * TicksPerSecond

\* the clock moves forward to a later instant of a finite set
Tick(clock) ==
    /\ \E t \in clock : t > now /\ now' = t
    /\ UNCHANGED <<events, nextId, response, reminderVars, authVars>>

\* EventReminderSerializer: event and user are primary keys of existing rows,
\* (event, user, reminder_datetime) is unique; is_sent and sent_at are read-only
ReminderValid(data) ==
    /\ data.event \in DOMAIN events
    /\ data.user \in Users
    /\ \A r \in reminders :
         ~(r.event = data.event /\ r.user = data.user
             /\ r.reminder_datetime = data.reminder_datetime)

\* a new EventReminder row: is_sent defaults to False, sent_at to null (<<>>);
\* calls counts the mark_sent calls on the row and sends those that changed it
NewReminder(data) ==
    [event |-> data.event, user |-> data.user,
     reminder_datetime |-> data.reminder_datetime,
     is_sent |-> FALSE, sent_at |-> <<>>, calls |-> 0, sends |-> 0]

\* the fields EventReminderSerializer renders
ReminderData(r) ==
    [event |-> r.event, user |-> r.user, reminder_datetime |-> r.reminder_datetime,
     is_sent |-> r.is_sent, sent_at |-> r.sent_at]

\* POST /reminders
CreateReminder(user, data) ==
    /\ IF ~ReminderValid(data)
       THEN /\ response' = Err("create_reminder", user, 400, "invalid")
            /\ UNCHANGED reminders
       ELSE /\ Cardinality(reminders) < MaxReminders
            /\ reminders' = reminders \cup {NewReminder(data)}
            /\ response' = Resp("create_reminder", user, 201, <<ReminderData(NewReminder(data))>>)
    /\ UNCHANGED <<events, nextId, now, passes, recurrences, authVars>>

\* EventReminderViewSet.get_queryset
ReminderQueryset(user) == {r \in reminders : r.user = user}

\* a faulty filter that leaves out the reminder due in exactly 24 h
UpcomingRowsBefore(user) ==
    LET next_24h == now + Horizon
    IN  { r \in ReminderQueryset(user) :
            /\ r.reminder_datetime >= now
            /\ r.reminder_datetime < next_24h
            /\ r.is_sent = FALSE }

\* the filter of upcoming: unsent reminders of the caller from now to now + 24 h
UpcomingRows(user) ==
    LET next_24h == now + Horizon
    IN  { r \in ReminderQueryset(user) :
            /\ r.reminder_datetime >= now
            /\ r.reminder_datetime <= next_24h
            /\ r.is_sent = FALSE }

\* rows in Meta.ordering: ascending reminder_datetime, equal instants in any order
OrderedReminders(rows) ==
    { s \in [1..Cardinality(rows) -> rows] :
        /\ \A r \in rows : \E i \in 1..Cardinality(rows) : s[i] = r
        /\ \A i \in 1..Cardinality(rows), j \in 1..Cardinality(rows) :
             i < j => s[i].reminder_datetime <= s[j].reminder_datetime }

\* GET /reminders/upcoming
Upcoming(user) ==
    /\ \E rows \in OrderedReminders(UpcomingRows(user)) :
         response' = Resp("upcoming", user, 200, [i \in DOMAIN rows |-> ReminderData(rows[i])])
    /\ UNCHANGED <<events, nextId, now, reminderVars, authVars>>

\* a faulty mark_sent that overwrites whatever the row holds
MarkSentRowBlind(r, t) ==
    [r EXCEPT !.is_sent = TRUE, !.sent_at = <<t>>, !.calls = @ + 1, !.sends = @ + 1]

\* mark_sent as an atomic conditional update: the row changes only if is_sent
\* is false
MarkSentRow(r, t) ==
    IF r.is_sent THEN [r EXCEPT !.calls = @ + 1]
    ELSE [r EXCEPT !.is_sent = TRUE, !.sent_at = <<t>>, !.calls = @ + 1, !.sends = @ + 1]

\* mark_sent called on a reminder that is unsent
MarkSent(key) ==
    /\ \E r \in reminders :
         <<r.event, r.user, r.reminder_datetime>> = key /\ ~r.is_sent
    /\ reminders' =
         { IF <<r.event, r.user, r.reminder_datetime>> = key THEN MarkSentRow(r, now) ELSE r :
             r \in reminders }
    /\ UNCHANGED <<events, nextId, now, response, passes, recurrences, authVars>>

\* a dispatch pass reads the reminders of a user that are due
PassQuery(p, user) ==
    /\ passes[p] = {}
    /\ passes' = [passes EXCEPT ![p] =
                    {<<r.event, r.user, r.reminder_datetime>> : r \in UpcomingRows(user)}]
    /\ UNCHANGED <<events, nextId, now, response, reminders, recurrences, authVars>>

\* the pass marks one of the reminders it read
PassMarkSent(p, key) ==
    /\ key \in passes[p]
    /\ passes' = [passes EXCEPT ![p] = @ \ {key}]
    /\ reminders' =
         { IF <<r.event, r.user, r.reminder_datetime>> = key THEN MarkSentRow(r, now) ELSE r :
             r \in reminders }
    /\ UNCHANGED <<events, nextId, now, response, recurrences, authVars>>

(***************************************************************************)
(* Password reset                                                          *)
(***************************************************************************)
TokenMinutes == 15
TokenLifetime == TokenMinutes * 60 * TicksPerSecond

\* POST /forgot-password: the account is looked up by its e-mail address (the
\* address of user u is written u); the token is a fresh uuid4
ForgotPassword(email) ==
    /\ IF email \notin Users
       THEN /\ response' = Err("forgot_password", 0, 404, "User not found")
            /\ UNCHANGED <<tokens, nextToken>>
       ELSE /\ nextToken <= MaxTokens
            /\ tokens' = tokens \cup
                 {[token |-> nextToken, user |-> email, expires_at |-> now + TokenLifetime]}
            /\ nextToken' = nextToken + 1
            /\ response' = Resp("forgot_password", 0, 200, <<>>)
    /\ UNCHANGED <<events, nextId, now, reminderVars, passwords, reqs>>

\* a faulty is_expired with the comparison reversed
IsExpiredBefore(row, t) == t < row.expires_at

\* PasswordResetToken.is_expired at instant t
IsExpired(row, t) == t > row.expires_at

\* ResetPasswordSerializer: new_password has at least 8 characters
ResetValid(new_password) == Len(new_password) >= 8

Answer(q, status, detail) ==
    [reqs EXCEPT ![q].pc = "done", ![q].status = status, ![q].detail = detail]

\* POST /reset-password, first statement: validate the body and read the token row
ResetFetch(q, token, new_password) ==
    /\ reqs[q].pc = "idle"
    /\ LET r == [reqs EXCEPT ![q].token = token, ![q].new_password = new_password]
           rows == {row \in tokens : row.token = token}
       IN  IF ~ResetValid(new_password)
           THEN reqs' = [r EXCEPT ![q].pc = "done", ![q].status = 400, ![q].detail = "invalid"]
           ELSE IF rows = {}
           THEN reqs' = [r EXCEPT ![q].pc = "done", ![q].status = 400,
                                  ![q].detail = "Invalid token"]
           ELSE \E row \in rows :
                   reqs' = [r EXCEPT ![q].pc = "check", ![q].held = <<row>>]
    /\ UNCHANGED <<events, nextId, now, response, reminderVars, tokens, nextToken, passwords>>

\* the expiry check on the row read, and the delete of an expired token
ResetCheck(q) ==
    /\ reqs[q].pc = "check"
    /\ IF IsExpired(reqs[q].held[1], now)
       THEN /\ tokens' = tokens \ {reqs[q].held[1]}
            /\ reqs' = Answer(q, 400, "Token expired")
       ELSE /\ reqs' = [reqs EXCEPT ![q].pc = "save"]
            /\ UNCHANGED tokens
    /\ UNCHANGED <<events, nextId, now, response, reminderVars, nextToken, passwords>>

\* user.set_password(new_password); user.save()
ResetSave(q) ==
    /\ reqs[q].pc = "save"
    /\ passwords' = [passwords EXCEPT ![reqs[q].held[1].user] = reqs[q].new_password]
    /\ reqs' = [reqs EXCEPT ![q].pc = "delete"]
    /\ UNCHANGED <<events, nextId, now, response, reminderVars, tokens, nextToken>>

\* reset_token.delete() and the answer
ResetDelete(q) ==
    /\ reqs[q].pc = "delete"
    /\ tokens' = tokens \ {reqs[q].held[1]}
    /\ reqs' = Answer(q, 200, "Password reset successful")
    /\ UNCHANGED <<events, nextId, now, response, reminderVars, nextToken, passwords>>

(***************************************************************************)
(* The event store under its write handlers                                *)
(***************************************************************************)
NoResponse == Resp("none", 0, 0, <<>>)

\* reset-password request ids and dispatch passes
Requests == 1..NumRequests
Passes == 1..NumPasses

IdleRequest ==
    [pc |-> "idle", token |-> 0, new_password |-> "", held |-> <<>>,
     status |-> 0, detail |-> ""]

\* the database after migration and signup of the users: no event, no
\* reminder, no token; every user has the password chosen at signup
Init ==
    /\ events = <<>>
    /\ nextId = 1
    /\ response = NoResponse
    /\ now = T1
    /\ recurrences = {}
    /\ reminders = {}
    /\ passes = [p \in Passes |-> {}]
    /\ tokens = {}
    /\ nextToken = 1
    /\ passwords = [u \in Users |-> "signup-password"]
    /\ reqs = [q \in Requests |-> IdleRequest]

Next ==
    \/ \E u \in Users, data \in EventBodies : Create(u, data)
    \/ \E u \in Users, pk \in EventIds, data \in EventBodies : Put(u, pk, data)
    \/ \E u \in Users, pk \in EventIds, data \in EventBodies : Patch(u, pk, data)
    \/ \E u \in Users, pk \in EventIds : MarkCompleted(u, pk)
    \/ \E u \in Users, pk \in EventIds : Delete(u, pk)
    \/ \E u \in Users, pk \in EventIds, uid \in UserIdInputs : AddAttendee(u, pk, uid)
    \/ \E u \in Users, pk \in EventIds, uid \in UserIdInputs : RemoveAttendee(u, pk, uid)

Spec == Init /\ [][Next]_vars

(***************************************************************************)
(* Properties of the event store                                           *)
(***************************************************************************)
WriteOps == {"create", "put", "patch", "mark_completed"}

\* C1: a create request whose end_datetime is not after its start_datetime is
\* answered 400 and leaves the table of events as it was.
C1_CreateRejectsInvalidRange ==
    [][\A u \in Users, data \in EventBodies :
        ( /\ Has(data, "start_datetime")
          /\ Has(data, "end_datetime")
          /\ data.end_datetime <= data.start_datetime
          /\ Create(u, data) )
        => (response'.status = 400 /\ events' = events)]_vars

\* C2: every stored event ends after it starts.
C2_EndAfterStart ==
    \A e \in DOMAIN events : events[e].end_datetime > events[e].start_datetime

\* C3: after a successful create, PUT, PATCH or mark_completed the stored
\* duration_minutes of the written event is the floor of (end - start) in minutes.
C3_DurationIsFloor ==
    (response.op \in WriteOps /\ response.status \in {200, 201})
        => LET row == events[response.body[1]]
           IN  row.duration_minutes
                 = (row.end_datetime - row.start_datetime) \div (60 * TicksPerSecond)

\* a user_id that is the primary key of no user
MatchesNoUser(uid) == ~(uid.kind \in {"int", "digits"} /\ uid.val \in Users)

\* C10: on an event the caller can reach, add_attendee and remove_attendee with
\* a user_id that matches no user answer 404 'User not found' and change no
\* attendee; remove_attendee of a user who is not an attendee answers 200 and
\* changes no attendee.
C10_UnknownUserIs404 ==
    [][\A u \in Users, pk \in EventIds, uid \in UserIdInputs :
        /\ ( /\ GetObject(u, NoParams, pk) = "found"
             /\ MatchesNoUser(uid)
             /\ (AddAttendee(u, pk, uid) \/ RemoveAttendee(u, pk, uid)) )
           => ( /\ response'.status = 404
                /\ response'.detail = "User not found"
                /\ events' = events )
        /\ ( /\ GetObject(u, NoParams, pk) = "found"
             /\ ~MatchesNoUser(uid)
             /\ events[pk].attendees[uid.val] = 0
             /\ RemoveAttendee(u, pk, uid) )
           => (response'.status = 200 /\ events' = events)]_vars

(***************************************************************************)
(* The attendee relation under add_attendee and remove_attendee            *)
(***************************************************************************)
\* bodies of the creates that fill the table: a valid range, with or without
\* a first attendee
PlainBodies ==
    { [start_datetime |-> T0, end_datetime |-> T1] @@ a : a \in Opt("attendees", SUBSET Users) }

IntId(v) == [kind |-> "int", val |-> v]

NextAttendees ==
    \/ \E u \in Users, data \in PlainBodies : Create(u, data)
    \/ \E u \in Users, pk \in EventIds : Delete(u, pk)
    \/ \E u \in Users, pk \in EventIds, uid \in UserIdInputs : AddAttendee(u, pk, uid)
    \/ \E u \in Users, pk \in EventIds, uid \in UserIdInputs : RemoveAttendee(u, pk, uid)

AttendeeSpec == Init /\ [][NextAttendees]_vars

\* C9: add_attendee of an existing user v, by a caller who reaches the event,
\* answers 200, leaves exactly one join row for v and leaves the caller able to
\* call again; when v already is an attendee (every call after the first) the
\* table of events is left as it was.
C9_AddAttendeeIdempotent ==
    [][response'.op = "add_attendee" =>
        \A u \in Users : response'.user = u =>
            \A pk \in EventIds, v \in Users :
                (GetObject(u, NoParams, pk) = "found" /\ AddAttendee(u, pk, IntId(v)))
                => ( /\ response'.status = 200
                     /\ events'[pk].attendees[v] = 1
                     /\ GetObject(u, NoParams, pk)' = "found"
                     /\ (events[pk].attendees[v] >= 1 => events' = events) )]_vars

\* add_attendee has answered 200 on an event that holds an attendee other than
\* its creator, exactly once
C9_Witness ==
    /\ response.op = "add_attendee"
    /\ response.status = 200
    /\ \E v \in Users :
         /\ events[response.body[1]].attendees[v] = 1
         /\ events[response.body[1]].created_by # v

(***************************************************************************)
(* The event store under its read handlers                                 *)
(***************************************************************************)
\* bodies of the creates that fill the table: a one-hour event at each instant
ViewBodies ==
    { [start_datetime |-> t, end_datetime |-> t + 3600 * TicksPerSecond,
       attendees |-> a, event_type |-> ty] :
        t \in EventTimes, a \in SUBSET Users, ty \in EventTypes }

\* ?date= values: 2024-01-01, the impossible 2024-02-30, and a string that is
\* not shaped like a date
DateInputs ==
    { [wellformed |-> TRUE, ymd |-> <<2024, 1, 1>>],
      [wellformed |-> TRUE, ymd |-> <<2024, 2, 30>>],
      [wellformed |-> FALSE, ymd |-> <<0, 0, 0>>] }

IntInput(n) == [kind |-> "int", val |-> n]
TextInput == [kind |-> "text", val |-> 0]

\* query strings of list, retrieve and week_view
ListParams ==
    { a @@ b @@ c @@ d :
        a \in Opt("event_type", EventTypes),
        b \in Opt("is_completed", {"true", "false"}),
        c \in Opt("date", DateInputs),
        d \in Opt("view", {"day", "week", "month"}) }

\* query strings of month_view
MonthParams ==
    { a @@ b @@ y @@ m :
        a \in Opt("event_type", EventTypes),
        b \in Opt("is_completed", {"true", "false"}),
        y \in Opt("year", {IntInput(2024), TextInput}),
        m \in Opt("month", {IntInput(1), IntInput(12), IntInput(13), TextInput}) }

NextView ==
    \/ \E u \in Users, data \in ViewBodies : Create(u, data)
    \/ \E u \in Users, pk \in EventIds : MarkCompleted(u, pk)
    \/ \E u \in Users, params \in ListParams : List(u, params)
    \/ \E u \in Users, params \in ListParams, pk \in EventIds : Retrieve(u, params, pk)
    \/ \E u \in Users, params \in ListParams : WeekView(u, params)
    \/ \E u \in Users, params \in MonthParams : MonthView(u, params)

ViewSpec == Init /\ [][NextView]_vars

\* the creator-or-attendee predicate of the visibility filter
Visible(u, e) == events[e].created_by = u \/ events[e].attendees[u] > 0

ReadOps == {"list", "retrieve", "week_view", "month_view"}

\* C4: every event a read handler returns to user u exists with u as its
\* creator or among its attendees, and no event is returned twice.
C4_OnlyVisibleOnce ==
    response.op \in ReadOps =>
        \A i \in 1..Len(response.body) :
            /\ response.body[i] \in DOMAIN events
            /\ Visible(response.user, response.body[i])
            /\ \A j \in 1..Len(response.body) : response.body[j] = response.body[i] => j = i

\* a list has answered a user who is both the creator and an attendee of the
\* one event it returns
C4_Witness ==
    /\ response.op = "list"
    /\ response.status = 200
    /\ Len(response.body) = 1
    /\ events[response.body[1]].created_by = response.user
    /\ events[response.body[1]].attendees[response.user] > 0
    /\ \E v \in Users \ {response.user} : events[response.body[1]].attendees[v] > 0

(***************************************************************************)
(* The reminder table under its handlers                                   *)
(***************************************************************************)
\* instants of the clock and of the reminders: a reminder at the first instant
\* of the clock, one 24 h after it and one a tick later
ReminderClock == {T1, T1 + 1}
ReminderTimes == {T1, T1 + Horizon, T1 + Horizon + 1}

ReminderBodies == [event : EventIds, user : UserIds, reminder_datetime : ReminderTimes]

ReminderKeys == EventIds \X Users \X ReminderTimes

MeetingBody == [start_datetime |-> T0, end_datetime |-> T1]

NextReminders ==
    \/ Create(1, MeetingBody)
    \/ \E data \in ReminderBodies : CreateReminder(1, data)
    \/ \E u \in Users : Upcoming(u)
    \/ \E key \in ReminderKeys : MarkSent(key)
    \/ Tick(ReminderClock)

ReminderSpec == Init /\ [][NextReminders]_vars

\* C8: GET /reminders/upcoming for user u at time now returns exactly the
\* reminders r with r.user = u, r.is_sent = false and
\* now <= r.reminder_datetime <= now + 24 hours, each once, in ascending order
\* of reminder_datetime, and changes no reminder.
C8_UpcomingExact ==
    [][response'.op = "upcoming" =>
        \A u \in Users : Upcoming(u) =>
            LET due == { r \in reminders :
                           /\ r.user = u
                           /\ ~r.is_sent
                           /\ now <= r.reminder_datetime
                           /\ r.reminder_datetime <= now + 24 * 60 * 60 * TicksPerSecond }
                body == response'.body
            IN  /\ response'.status = 200
                /\ {body[i] : i \in DOMAIN body} = {ReminderData(r) : r \in due}
                /\ Len(body) = Cardinality(due)
                /\ \A i \in DOMAIN body, j \in DOMAIN body :
                     i < j => body[i].reminder_datetime <= body[j].reminder_datetime
                /\ reminders' = reminders]_vars

\* upcoming answered with the reminder due now followed by the one due in
\* exactly 24 hours, both unsent
C8_Witness ==
    /\ response.op = "upcoming"
    /\ Len(response.body) = 2
    /\ response.body[1].reminder_datetime = now
    /\ response.body[2].reminder_datetime = now + Horizon
    /\ \A r \in reminders : r.user = response.user /\ ~r.is_sent

(***************************************************************************)
(* Dispatch passes racing on the reminder table                            *)
(***************************************************************************)
\* reminders that are due at the first instant of the clock
DueBodies == [event : EventIds, user : Users, reminder_datetime : {T1}]

NextDispatch ==
    \/ Create(1, MeetingBody)
    \/ \E data \in DueBodies : CreateReminder(1, data)
    \/ \E p \in Passes, u \in Users : PassQuery(p, u)
    \/ \E p \in Passes, key \in ReminderKeys : PassMarkSent(p, key)
    \/ Tick(ReminderClock)

DispatchSpec == Init /\ [][NextDispatch]_vars

\* C7: mark_sent sets is_sent and sent_at = now on a reminder at most once: a
\* call on a reminder already sent leaves is_sent and sent_at as the first call
\* set them, also when two dispatch passes race on the same reminder.
C7_MarkSentAtMostOnce ==
    [][\A r \in reminders, r2 \in reminders' :
        (r.event = r2.event /\ r.user = r2.user
            /\ r.reminder_datetime = r2.reminder_datetime)
        => /\ r2.sends <= 1
           /\ r.is_sent => (r2.is_sent /\ r2.sent_at = r.sent_at /\ r2.sends = r.sends)
           /\ (~r.is_sent /\ r2.calls > r.calls)
                => (r2.is_sent /\ r2.sent_at = <<now>> /\ r2.sends = 1)
           /\ r2.calls = r.calls => r2 = r]_vars

\* two passes called mark_sent on one reminder, the second at a later instant,
\* and sent_at is the instant of the first call
C7_Witness ==
    \E r \in reminders :
        /\ r.calls = 2
        /\ r.is_sent
        /\ r.sent_at = <<T1>>
        /\ now > T1

(***************************************************************************)
(* Password reset requests handled concurrently                            *)
(***************************************************************************)
\* a token issued at the first instant is still valid at the second and expired
\* at the third
ResetClock == {T1, T1 + TokenLifetime, T1 + TokenLifetime + 1}

TokenInputs == 1..(MaxTokens + 1)
PasswordInputs == {"first-password", "other-password", "short"}

NextReset ==
    \/ \E email \in UserIds : ForgotPassword(email)
    \/ \E q \in Requests, token \in TokenInputs, pw \in PasswordInputs :
         ResetFetch(q, token, pw)
    \/ \E q \in Requests : ResetCheck(q)
    \/ \E q \in Requests : ResetSave(q)
    \/ \E q \in Requests : ResetDelete(q)
    \/ Tick(ResetClock)

ResetSpec == Init /\ [][NextReset]_vars

\* C5: a password-reset token is single-use: of the requests carrying one
\* token, processed one after another or concurrently, at most one completes
\* with 'Password reset successful', and after a successful reset the token is
\* no longer in the store.
C5_TokenSingleUse ==
    /\ \A q1 \in Requests, q2 \in Requests :
         ( /\ reqs[q1].detail = "Password reset successful"
           /\ reqs[q2].detail = "Password reset successful"
           /\ reqs[q1].token = reqs[q2].token ) => q1 = q2
    /\ \A q \in Requests :
         reqs[q].detail = "Password reset successful"
            => \A row \in tokens : row.token # reqs[q].token

\* C6: a reset-password request whose token is past its expires_at when the
\* handler checks it is answered 400 'Token expired', leaves every password
\* unchanged and removes the token; a request that then asks for a token that
\* is not in the store is answered 400 'Invalid token'.
C6_ExpiredTokenRejected ==
    [][\A q \in Requests :
        /\ ( /\ reqs[q].pc = "check"
             /\ reqs'[q] # reqs[q]
             /\ now > reqs[q].held[1].expires_at )
           => /\ reqs'[q].status = 400
              /\ reqs'[q].detail = "Token expired"
              /\ reqs'[q].pc = "done"
              /\ passwords' = passwords
              /\ \A row \in tokens' : row.token # reqs[q].token
        /\ ( /\ reqs[q].pc = "idle"
             /\ reqs'[q] # reqs[q]
             /\ Len(reqs'[q].new_password) >= 8
             /\ \A row \in tokens : row.token # reqs'[q].token )
           => /\ reqs'[q].status = 400
              /\ reqs'[q].detail = "Invalid token"
              /\ passwords' = passwords
              /\ tokens' = tokens]_vars

\* one request was answered 'Token expired', a later one with the same token
\* 'Invalid token', and the password of the account is the one it had
C6_Witness ==
    \E q1 \in Requests, q2 \in Requests :
        /\ reqs[q1].detail = "Token expired"
        /\ reqs[q2].detail = "Invalid token"
        /\ reqs[q1].token = reqs[q2].token
        /\ \A u \in Users : passwords[u] = "signup-password"
        /\ tokens = {}

(***************************************************************************)
(* Who owns an event                                                       *)
(***************************************************************************)
\* request bodies without created_by and bodies that name user 1 as the creator
CreatorBodies ==
    { [start_datetime |-> T0, end_datetime |-> T1] @@ c : c \in Opt("created_by", {1}) }

NextCreator ==
    \/ \E u \in Users, data \in CreatorBodies : Create(u, data)
    \/ \E u \in Users, pk \in EventIds, data \in CreatorBodies : Put(u, pk, data)
    \/ \E u \in Users, pk \in EventIds, data \in CreatorBodies : Patch(u, pk, data)
    \/ \E u \in Users, pk \in EventIds : MarkCompleted(u, pk)
    \/ \E u \in Users, pk \in EventIds, v \in Users : AddAttendee(u, pk, IntId(v))
    \/ \E u \in Users, pk \in EventIds, v \in Users : RemoveAttendee(u, pk, IntId(v))

CreatorSpec == Init /\ [][NextCreator]_vars

\* C11: the creator of a new event is the authenticated user who issued the
\* create request, whatever created_by the body carries, and no PUT, PATCH,
\* mark_completed, add_attendee or remove_attendee by any user changes the
\* created_by of an existing event.
C11_CreatorImmutable ==
    [][/\ \A e \in DOMAIN events' \ DOMAIN events :
            /\ response'.op = "create"
            /\ events'[e].created_by = response'.user
       /\ \A e \in DOMAIN events \cap DOMAIN events' :
            events'[e].created_by = events[e].created_by]_vars

\* a PATCH by an attendee who is not the creator was answered 200 and the event
\* still belongs to its creator
C11_Witness ==
    /\ response.op = "patch"
    /\ response.status = 200
    /\ events[response.body[1]].created_by # response.user
    /\ events[response.body[1]].attendees[response.user] = 1

(***************************************************************************)
(* Rows that hang on an event                                              *)
(***************************************************************************)
\* user 1 creates events and reminders; any user who reaches an event deletes
\* it; one dispatch pass reads the reminders of a user
NextCascade ==
    \/ Create(1, MeetingBody)
    \/ \E u \in Users, pk \in EventIds : Delete(u, pk)
    \/ \E u \in Users, pattern \in Patterns : CreateRecurrence(u, pattern)
    \/ \E e \in EventIds, pattern \in Patterns : SaveRecurrence(e, pattern)
    \/ \E data \in DueBodies : CreateReminder(1, data)
    \/ \E u \in Users : PassQuery(1, u)

CascadeSpec == Init /\ [][NextCascade]_vars

\* C12: every RecurringEvent and every EventReminder refers to an event that
\* is in the store (deleting an event removes them), and an event has at most
\* one recurrence record.
C12_DeleteCascades ==
    /\ \A r \in recurrences : r.base_event \in DOMAIN events
    /\ \A r \in reminders : r.event \in DOMAIN events
    /\ \A e \in DOMAIN events : Cardinality({r \in recurrences : r.base_event = e}) <= 1

\* an event was deleted while a dispatch pass still held one of its reminders:
\* the delete was answered 204 and no reminder or recurrence record is left
C12_Witness ==
    /\ response.op = "delete"
    /\ response.status = 204
    /\ \E key \in passes[1] : key[1] \notin DOMAIN events
    /\ nextId > MaxEvents
    /\ reminders = {}
    /\ recurrences = {}

(***************************************************************************)
(* Time windows of the read handlers                                       *)
(***************************************************************************)
\* the instant t lies in the week, Monday 00:00 up to the next Monday 00:00,
\* that contains the date d
InWeekOf(t, d) ==
    LET monday == (ToOrdinal(d) - Weekday(d) - EpochOrdinal) * TicksPerDay
    IN  monday <= t /\ t < monday + 7 * TicksPerDay

\* C13: a week filter for the date d, asked through week_view?date=d or
\* through the list with date=d&view=week, answers only visible events whose
\* start_datetime lies in the Monday-to-Sunday week that contains d.
C13_WeekFilterWindow ==
    [][response'.op \in {"list", "week_view"} =>
        \A u \in Users, params \in ListParams :
            ( /\ Has(params, "date")
              /\ ParseDate(params.date).kind = "date"
              /\ \/ WeekView(u, params)
                 \/ (Has(params, "view") /\ params.view = "week" /\ List(u, params)) )
            => /\ response'.status = 200
               /\ \A i \in DOMAIN response'.body :
                    /\ Visible(u, response'.body[i])
                    /\ InWeekOf(events[response'.body[i]].start_datetime, params.date.ymd)]_vars

(***************************************************************************)
(* The month view at the edges of a month                                  *)
(***************************************************************************)
\* instants around the end of January, of leap February and of December 2024:
\* the first instant of the next month, one tick before it (inside the final
\* second of the month) and one second before it
MonthEdges ==
    { Midnight(first) - d : first \in {<<2024, 2, 1>>, <<2024, 3, 1>>, <<2025, 1, 1>>},
                            d \in {0, 1, TicksPerSecond} }

EdgeBodies ==
    { [start_datetime |-> t, end_datetime |-> t + 3600 * TicksPerSecond] @@ a :
        t \in MonthEdges, a \in Opt("attendees", {{2}}) }

EdgeParams ==
    { [year |-> IntInput(2024)] @@ m :
        m \in Opt("month", {IntInput(1), IntInput(2), IntInput(12)}) }

NextMonth ==
    \/ \E u \in Users, data \in EdgeBodies : Create(u, data)
    \/ \E u \in Users, params \in EdgeParams : MonthView(u, params)

MonthSpec == Init /\ [][NextMonth]_vars

\* C14: month_view for (year, month) answers exactly the visible events whose
\* start_datetime lies from the first instant of the month up to its last
\* instant, the final second of the last day included.
C14_MonthWindow ==
    [][response'.op = "month_view" =>
        \A u \in Users, params \in EdgeParams :
            MonthView(u, params) =>
                LET y == params.year.val
                    m == IF Has(params, "month") THEN params.month.val ELSE DateOf(now)[2]
                    first == Midnight(<<y, m, 1>>)
                    next == IF m = 12 THEN Midnight(<<y + 1, 1, 1>>)
                            ELSE Midnight(<<y, m + 1, 1>>)
                    body == response'.body
                IN  /\ response'.status = 200
                    /\ {body[i] : i \in DOMAIN body}
                         = { e \in DOMAIN events :
                               /\ Visible(u, e)
                               /\ first <= events[e].start_datetime
                               /\ events[e].start_datetime < next }]_vars

\* C15: week_view with a date that is not a valid calendar date (wrongly shaped,
\* or well shaped but impossible) and month_view with a year or month that is
\* not an integer, or a month outside 1..12, are answered 400.
C15_MalformedWindowIs400 ==
    [][response'.op \in {"week_view", "month_view"} =>
        /\ \A u \in Users, params \in ListParams :
             ( /\ Has(params, "date")
               /\ ParseDate(params.date).kind # "date"
               /\ WeekView(u, params) )
             => response'.status = 400
        /\ \A u \in Users, params \in MonthParams :
             ( /\ \/ (Has(params, "year") /\ params.year.kind # "int")
                  \/ (Has(params, "month") /\ params.month.kind # "int")
                  \/ (Has(params, "month") /\ params.month.kind = "int"
                        /\ params.month.val \notin 1..12)
               /\ MonthView(u, params) )
             => response'.status = 400]_vars

\* an operation on events that changes an event or its attendees, or deletes it
ChangeOps == {"put", "patch", "mark_completed", "delete", "add_attendee", "remove_attendee"}

\* C16: only the creator of an event changes or deletes it: a PUT, PATCH,
\* mark_completed, DELETE, add_attendee or remove_attendee by a user who is
\* not the creator of the event, attendee or not, leaves the table of events
\* as it was.
C16_OnlyCreatorModifies ==
    [][response'.op \in ChangeOps =>
        \A e \in DOMAIN events :
            events[e].created_by # response'.user
                => (e \in DOMAIN events' /\ events'[e] = events[e])]_vars

====
